---- MODULE Spec2Model ----
(***************************************************************************)
(* UnsafeGuaranteedPeephole: removal of retain/release pairs around        *)
(* builtin "unsafeGuaranteed" / "unsafeGuaranteedEnd" instruction          *)
(* sequences of a SIL function.                                            *)
(*                                                                         *)
(* A function is a sequence of basic blocks, a basic block a sequence of   *)
(* instructions, an instruction a record [id, kind, opd].  Instruction     *)
(* ids and values are strings: the value an instruction defines is named   *)
(* by the instruction's id, function arguments are "x" and "y".            *)
(* An iterator is the id of the instruction it designates, or EndIt.       *)
(***************************************************************************)
EXTENDS Integers, Sequences, FiniteSets, TLC

\* -------------------------------------------------------------------------
\* Bounds of the model
\* -------------------------------------------------------------------------

\* Number of edits (one inserted or one removed instruction) applied to a
\* template function to obtain an input function.
MaxEdits == 1

\* -------------------------------------------------------------------------
\* The IR
\* -------------------------------------------------------------------------

Args == {"x", "y"}

NoValue == "none"

EndIt == "END"

\* An iterator read from an erased instruction that designates no instruction
\* of the block and is not the block's end.
Dangling == "DANGLING"

I(id, kind, opd) == [id |-> id, kind |-> kind, opd |-> opd]

isRetain(i) == i.kind = "strong_retain"

isRelease(i) == i.kind = "strong_release"

isUnsafeGuaranteed(i) == i.kind = "unsafeGuaranteed"

isUnsafeGuaranteedEnd(i) == i.kind = "unsafeGuaranteedEnd"

isDebugValue(i) == i.kind = "debug_value"

isApply(i) == i.kind = "apply"

isTerminator(i) == i.kind \in {"br", "cond_br", "return"}

\* SILInstruction::mayHaveSideEffects, by instruction kind.
mayHaveSideEffects(i) == i.kind \notin {"tuple_extract0", "tuple_extract1", "function_ref", "upcast"}

Range(s) == {s[k] : k \in 1..Len(s)}

BlockIds(blk) == {blk[k].id : k \in 1..Len(blk)}

AllInsts(F) == UNION {Range(F[b]) : b \in 1..Len(F)}

AllIds(F) == {i.id : i \in AllInsts(F)}

InstOf(F, id) == CHOOSE i \in AllInsts(F) : i.id = id

\* SILInstruction::getParent
ParentOf(F, id) == CHOOSE b \in 1..Len(F) : id \in BlockIds(F[b])

PosIn(blk, id) == CHOOSE k \in 1..Len(blk) : blk[k].id = id

\* BB.begin()
BeginIt(blk) == IF Len(blk) = 0 THEN EndIt ELSE blk[1].id

\* std::next(It) for an iterator designating an instruction of blk
NextIt(blk, id) == IF PosIn(blk, id) = Len(blk) THEN EndIt ELSE blk[PosIn(blk, id) + 1].id

\* std::prev(It) for an iterator designating an instruction of blk other than the first
PrevIt(blk, id) == blk[PosIn(blk, id) - 1].id

\* RCIdentityFunctionInfo::getRCIdentityRoot: strips reference-count
\* identity preserving instructions (casts, the extraction of the single
\* reference-counted field of a tuple) down to the value that owns the count.
RECURSIVE getRCIdentityRoot(_, _)
getRCIdentityRoot(F, v) ==
  IF v \notin AllIds(F) THEN v
  ELSE LET i == InstOf(F, v) IN
       IF i.kind \in {"upcast", "tuple_extract0"} THEN getRCIdentityRoot(F, i.opd) ELSE v

\* The non-debug users of value v.
NonDebugUsers(F, v) == {i \in AllInsts(F) : i.opd = v /\ ~isDebugValue(i)}

\* The debug users of value v.
DebugUsers(F, v) == {i.id : i \in {j \in AllInsts(F) : j.opd = v /\ isDebugValue(j)}}

\* getSingleUnsafeGuaranteedValueResult: <<value, token>>, the two
\* tuple_extract users of the builtin, or <<NoValue, NoValue>> when a result is
\* missing or claimed twice or the builtin has another user.
getSingleUnsafeGuaranteedValueResult(F, g) ==
  LET us == NonDebugUsers(F, g)
      vs == {i \in us : i.kind = "tuple_extract0"}
      ts == {i \in us : i.kind = "tuple_extract1"}
  IN IF Cardinality(vs) = 1 /\ Cardinality(ts) = 1 /\ us = vs \cup ts
     THEN <<(CHOOSE i \in vs : TRUE).id, (CHOOSE i \in ts : TRUE).id>>
     ELSE <<NoValue, NoValue>>

\* Mutant: the first "unsafeGuaranteedEnd" user is taken, whether or not it is
\* the only one.
getFirstUnsafeGuaranteedEndUser(F, tok) ==
  LET us == {i \in NonDebugUsers(F, tok) : isUnsafeGuaranteedEnd(i)} IN
  IF us # {} THEN (CHOOSE i \in us : TRUE).id ELSE NoValue

\* getUnsafeGuaranteedEndUser: the unique "unsafeGuaranteedEnd" consuming the token.
getUnsafeGuaranteedEndUser(F, tok) ==
  LET us == NonDebugUsers(F, tok) IN
  IF Cardinality(us) = 1 /\ \A i \in us : isUnsafeGuaranteedEnd(i)
  THEN (CHOOSE i \in us : TRUE).id ELSE NoValue

\* -------------------------------------------------------------------------
\* The analyses and utilities the pass calls
\* -------------------------------------------------------------------------

\* Post-dominance of basic blocks over the (acyclic) control-flow graph succ:
\* every path from block a to a function exit passes through block b.
RECURSIVE BlockPostDominates(_, _, _)
BlockPostDominates(succ, b, a) ==
  \/ a = b
  \/ /\ succ[a] # {}
     /\ \A s \in succ[a] : BlockPostDominates(succ, b, s)

\* PostDominanceInfo::properlyDominates(A, B) on instructions: A properly
\* post-dominates B.
properlyDominates(F, succ, a, b) ==
  LET ba == ParentOf(F, a)
      bb == ParentOf(F, b)
  IN IF ba = bb THEN PosIn(F[ba], b) < PosIn(F[ba], a)
     ELSE BlockPostDominates(succ, ba, bb)

\* A release that balances the guaranteed value: its operand's identity root is
\* that of the builtin's value result or of the builtin's operand.
isMatchingRelease(F, i, g, val) ==
  /\ isRelease(i)
  /\ getRCIdentityRoot(F, i.opd) \in
       {getRCIdentityRoot(F, val), getRCIdentityRoot(F, InstOf(F, g).opd)}

\* The instructions a search for the matching release steps over.
isReleaseSearchFiller(i) == ~mayHaveSideEffects(i) \/ isDebugValue(i)

\* The first matching release at or after position k of blk, stepping over filler only.
RECURSIVE ReleaseAfter(_, _, _, _, _)
ReleaseAfter(F, blk, k, g, val) ==
  IF k > Len(blk) THEN NoValue
  ELSE IF isMatchingRelease(F, blk[k], g, val) THEN blk[k].id
  ELSE IF isReleaseSearchFiller(blk[k]) THEN ReleaseAfter(F, blk, k + 1, g, val)
  ELSE NoValue

\* The first matching release at or before position k of blk, stepping over filler only.
RECURSIVE ReleaseBefore(_, _, _, _, _)
ReleaseBefore(F, blk, k, g, val) ==
  IF k < 1 THEN NoValue
  ELSE IF isMatchingRelease(F, blk[k], g, val) THEN blk[k].id
  ELSE IF isReleaseSearchFiller(blk[k]) THEN ReleaseBefore(F, blk, k - 1, g, val)
  ELSE NoValue

\* findReleaseToMatchUnsafeGuaranteedValue: search after the
\* "unsafeGuaranteedEnd" in its block, then before it.
findReleaseToMatchUnsafeGuaranteedValue(F, e, g, val) ==
  LET blk == F[ParentOf(F, e)]
      k == PosIn(blk, e)
      fwd == ReleaseAfter(F, blk, k + 1, g, val)
  IN IF fwd # NoValue THEN fwd ELSE ReleaseBefore(F, blk, k - 1, g, val)

\* -------------------------------------------------------------------------
\* tryRemoveRetainReleasePairsBetween
\* -------------------------------------------------------------------------

\* Mutant: the nested retains and releases are those of the identity root of
\* the builtin's operand.
RootOfOperand(F, i, g) == getRCIdentityRoot(F, i.opd) = getRCIdentityRoot(F, InstOf(F, g).opd)

\* Mutant: the nested scan does not look at the identity root.
RootUnchecked(F, i, g) == TRUE

\* The retain/release test of the nested scan: the identity root of the
\* operand is defined by the "unsafeGuaranteed" builtin itself.
RootDefinedBy(F, i, g) == getRCIdentityRoot(F, i.opd) = g

\* Mutant: the candidate retain is not reset by an instruction with side effects.
RECURSIVE NestedScanNoReset(_, _, _, _, _, _, _, _, _)
NestedScanNoReset(F, blk, k, g, retain, release, e, cand, acc) ==
  IF k > Len(blk) \/ blk[k].id = release \/ blk[k].id = e THEN acc
  ELSE LET cur == blk[k] IN
    IF cur.id # retain /\ isRetain(cur) /\ RootDefinedBy(F, cur, g)
    THEN NestedScanNoReset(F, blk, k + 1, g, retain, release, e, cur.id, acc)
    ELSE IF cand # NoValue /\ cur.id # release /\ isRelease(cur) /\ RootDefinedBy(F, cur, g)
    THEN NestedScanNoReset(F, blk, k + 1, g, retain, release, e, NoValue, acc \o <<cand, cur.id>>)
    ELSE NestedScanNoReset(F, blk, k + 1, g, retain, release, e, cand, acc)

\* Mutant: a call resets the candidate retain.
RECURSIVE NestedScanCallsReset(_, _, _, _, _, _, _, _, _)
NestedScanCallsReset(F, blk, k, g, retain, release, e, cand, acc) ==
  IF k > Len(blk) \/ blk[k].id = release \/ blk[k].id = e THEN acc
  ELSE LET cur == blk[k] IN
    IF cur.id # retain /\ isRetain(cur) /\ RootDefinedBy(F, cur, g)
    THEN NestedScanCallsReset(F, blk, k + 1, g, retain, release, e, cur.id, acc)
    ELSE IF ~mayHaveSideEffects(cur) \/ isDebugValue(cur)
    THEN NestedScanCallsReset(F, blk, k + 1, g, retain, release, e, cand, acc)
    ELSE IF cand # NoValue /\ cur.id # release /\ isRelease(cur) /\ RootDefinedBy(F, cur, g)
    THEN NestedScanCallsReset(F, blk, k + 1, g, retain, release, e, NoValue, acc \o <<cand, cur.id>>)
    ELSE NestedScanCallsReset(F, blk, k + 1, g, retain, release, e, NoValue, acc)

\* Mutant: the candidate retain stays in its slot after it has been paired.
RECURSIVE NestedScanKeepSlot(_, _, _, _, _, _, _, _, _)
NestedScanKeepSlot(F, blk, k, g, retain, release, e, cand, acc) ==
  IF k > Len(blk) \/ blk[k].id = release \/ blk[k].id = e THEN acc
  ELSE LET cur == blk[k] IN
    IF cur.id # retain /\ isRetain(cur) /\ RootDefinedBy(F, cur, g)
    THEN NestedScanKeepSlot(F, blk, k + 1, g, retain, release, e, cur.id, acc)
    ELSE IF ~mayHaveSideEffects(cur) \/ isDebugValue(cur) \/ isApply(cur)
    THEN NestedScanKeepSlot(F, blk, k + 1, g, retain, release, e, cand, acc)
    ELSE IF cand # NoValue /\ cur.id # release /\ isRelease(cur) /\ RootDefinedBy(F, cur, g)
    THEN NestedScanKeepSlot(F, blk, k + 1, g, retain, release, e, cand, acc \o <<cand, cur.id>>)
    ELSE NestedScanKeepSlot(F, blk, k + 1, g, retain, release, e, NoValue, acc)

\* The body of the while loop from position k, with candidate retain cand and
\* the instructions queued so far in acc; the result is InstsToDelete.
RECURSIVE NestedScan(_, _, _, _, _, _, _, _, _)
NestedScan(F, blk, k, g, retain, release, e, cand, acc) ==
  IF k > Len(blk) \/ blk[k].id = release \/ blk[k].id = e THEN acc
  ELSE LET cur == blk[k] IN
    IF cur.id # retain /\ isRetain(cur) /\ RootDefinedBy(F, cur, g)
    THEN NestedScan(F, blk, k + 1, g, retain, release, e, cur.id, acc)
    ELSE IF ~mayHaveSideEffects(cur) \/ isDebugValue(cur) \/ isApply(cur)
    THEN NestedScan(F, blk, k + 1, g, retain, release, e, cand, acc)
    ELSE IF cand # NoValue /\ cur.id # release /\ isRelease(cur) /\ RootDefinedBy(F, cur, g)
    THEN NestedScan(F, blk, k + 1, g, retain, release, e, NoValue, acc \o <<cand, cur.id>>)
    ELSE NestedScan(F, blk, k + 1, g, retain, release, e, NoValue, acc)

\* The sequence of instructions tryRemoveRetainReleasePairsBetween erases.
\* retainBB is the block of the retain, as retain->getParent() reads it.
tryRemoveRetainReleasePairsBetween(F, g, retain, retainBB, release, e) ==
  LET bb == ParentOf(F, g) IN
  IF bb # ParentOf(F, e) \/ bb # retainBB \/ bb # ParentOf(F, release) THEN <<>>
  ELSE NestedScan(F, F[bb], PosIn(F[bb], g), g, retain, release, e, NoValue, <<>>)

\* -------------------------------------------------------------------------
\* IR mutation
\* -------------------------------------------------------------------------

\* SILInstruction::eraseFromParent for every instruction of the set ids
EraseAll(F, ids) ==
  [b \in 1..Len(F) |-> SelectSeq(F[b], LAMBDA i : i.id \notin ids)]

\* replaceAllUsesWith: every operand among olds becomes new
ReplaceAllUsesWith(F, olds, new) ==
  [b \in 1..Len(F) |->
     [k \in 1..Len(F[b]) |->
        IF F[b][k].opd \in olds THEN [F[b][k] EXCEPT !.opd = new] ELSE F[b][k]]]

\* -------------------------------------------------------------------------
\* Input functions
\* -------------------------------------------------------------------------

Fn(blocks, succ) == [blocks |-> blocks, succ |-> succ]

\* The example of the file header with the release after the end builtin:
\* retain, unsafeGuaranteed, its two results, a call of the guaranteed value,
\* unsafeGuaranteedEnd, release.
RegionA ==
  <<I("r1", "strong_retain", "x"), I("g1", "unsafeGuaranteed", "x"),
    I("v1", "tuple_extract0", "g1"), I("t1", "tuple_extract1", "g1"),
    I("c1", "apply", "v1"), I("e1", "unsafeGuaranteedEnd", "t1"),
    I("d1", "strong_release", "x")>>

Ret == <<I("z1", "return", NoValue)>>

TemplateA == Fn(<<RegionA \o Ret>>, <<{}>>)

\* The example of the file header as written: the release of the guaranteed
\* value precedes the end builtin.
TemplateHeader ==
  Fn(<<<<I("r1", "strong_retain", "x"), I("g1", "unsafeGuaranteed", "x"),
         I("v1", "tuple_extract0", "g1"), I("t1", "tuple_extract1", "g1"),
         I("c1", "apply", "v1"), I("d1", "strong_release", "v1"),
         I("e1", "unsafeGuaranteedEnd", "t1")>> \o Ret>>, <<{}>>)

\* A retain/release pair of value nv nested in the region, before the call.
NestedRegion(nv) ==
  <<I("r1", "strong_retain", "x"), I("g1", "unsafeGuaranteed", "x"),
    I("v1", "tuple_extract0", "g1"), I("t1", "tuple_extract1", "g1"),
    I("n1", "strong_retain", nv), I("n2", "strong_release", nv),
    I("c1", "apply", "v1"), I("e1", "unsafeGuaranteedEnd", "t1"),
    I("d1", "strong_release", "x")>>

TemplateNestedValue == Fn(<<NestedRegion("v1") \o Ret>>, <<{}>>)

TemplateNestedOperand == Fn(<<NestedRegion("x") \o Ret>>, <<{}>>)

\* Two retains and then two releases of the guaranteed value nested in the region.
TemplateNestedTwice ==
  Fn(<<<<I("r1", "strong_retain", "x"), I("g1", "unsafeGuaranteed", "x"),
         I("v1", "tuple_extract0", "g1"), I("t1", "tuple_extract1", "g1"),
         I("n1", "strong_retain", "v1"), I("n3", "strong_retain", "v1"),
         I("n2", "strong_release", "v1"), I("n4", "strong_release", "v1"),
         I("c1", "apply", "v1"), I("e1", "unsafeGuaranteedEnd", "t1"),
         I("d1", "strong_release", "x")>> \o Ret>>, <<{}>>)

\* A second region of the same operand, with no retain of its own.
RegionB ==
  <<I("g2", "unsafeGuaranteed", "x"),
    I("v2", "tuple_extract0", "g2"), I("t2", "tuple_extract1", "g2"),
    I("c2", "apply", "v2"), I("e2", "unsafeGuaranteedEnd", "t2"),
    I("d2", "strong_release", "x")>>

TemplateTwoRegions == Fn(<<RegionA \o RegionB \o Ret>>, <<{}>>)

\* Two regions of the same operand, the first without a call, after an earlier
\* retain of the operand.
TemplateEarlierRetain ==
  Fn(<<<<I("r0", "strong_retain", "x"), I("p0", "function_ref", NoValue),
         I("r1", "strong_retain", "x"), I("g1", "unsafeGuaranteed", "x"),
         I("v1", "tuple_extract0", "g1"), I("t1", "tuple_extract1", "g1"),
         I("e1", "unsafeGuaranteedEnd", "t1"), I("d1", "strong_release", "x")>>
       \o RegionB \o Ret>>, <<{}>>)

\* A region of y placed between the end builtin of a region of x and its release.
TemplateNeighbour ==
  Fn(<<<<I("r2", "strong_retain", "x"), I("g2", "unsafeGuaranteed", "x"),
         I("v2", "tuple_extract0", "g2"), I("t2", "tuple_extract1", "g2"),
         I("c2", "apply", "v2"), I("e2", "unsafeGuaranteedEnd", "t2"),
         I("r1", "strong_retain", "y"), I("g1", "unsafeGuaranteed", "y"),
         I("v1", "tuple_extract0", "g1"), I("t1", "tuple_extract1", "g1"),
         I("e1", "unsafeGuaranteedEnd", "t1"), I("d1", "strong_release", "y"),
         I("d2", "strong_release", "x")>> \o Ret>>, <<{}>>)

\* The end builtin and the release in a successor block.
CrossBlocks ==
  <<<<I("r1", "strong_retain", "x"), I("g1", "unsafeGuaranteed", "x"),
      I("v1", "tuple_extract0", "g1"), I("t1", "tuple_extract1", "g1"),
      I("c1", "apply", "v1"), I("k1", "cond_br", NoValue)>>,
    <<I("e1", "unsafeGuaranteedEnd", "t1"), I("d1", "strong_release", "x"),
      I("k2", "br", NoValue)>>,
    Ret>>

\* bb1 -> bb2 -> bb3: the end builtin post-dominates the begin builtin.
TemplateCrossLinear == Fn(CrossBlocks, <<{2}, {3}, {}>>)

\* bb1 -> bb2 | bb3, bb2 -> bb3: a path to the exit avoids the end builtin.
TemplateCrossBranch == Fn(CrossBlocks, <<{2, 3}, {3}, {}>>)

\* The end builtin and the release in a successor block, and a retain/release
\* pair of the guaranteed value nested in the block of the begin builtin.
TemplateCrossNested ==
  Fn(<<<<I("r1", "strong_retain", "x"), I("g1", "unsafeGuaranteed", "x"),
         I("v1", "tuple_extract0", "g1"), I("t1", "tuple_extract1", "g1"),
         I("n1", "strong_retain", "v1"), I("n2", "strong_release", "v1"),
         I("k1", "br", NoValue)>>,
       <<I("e1", "unsafeGuaranteedEnd", "t1"), I("d1", "strong_release", "x")>>
         \o Ret>>, <<{2}, {}>>)

\* Two regions of the same operand, the second with no retain of its own and
\* with a retain/release pair of its guaranteed value nested in it.
TemplateSecondNested ==
  Fn(<<<<I("r1", "strong_retain", "x"), I("g1", "unsafeGuaranteed", "x"),
         I("v1", "tuple_extract0", "g1"), I("t1", "tuple_extract1", "g1"),
         I("e1", "unsafeGuaranteedEnd", "t1"), I("d1", "strong_release", "x"),
         I("g2", "unsafeGuaranteed", "x"),
         I("v2", "tuple_extract0", "g2"), I("t2", "tuple_extract1", "g2"),
         I("n1", "strong_retain", "v2"), I("n2", "strong_release", "v2"),
         I("e2", "unsafeGuaranteedEnd", "t2"), I("d2", "strong_release", "x")>>
       \o Ret>>, <<{}>>)

\* The operand of the builtin is a cast of the retained value.
TemplateCast ==
  Fn(<<<<I("u1", "upcast", "x"), I("r1", "strong_retain", "x"),
         I("g1", "unsafeGuaranteed", "u1"),
         I("v1", "tuple_extract0", "g1"), I("t1", "tuple_extract1", "g1"),
         I("c1", "apply", "v1"), I("e1", "unsafeGuaranteedEnd", "t1"),
         I("d1", "strong_release", "u1")>> \o Ret>>, <<{}>>)

Templates ==
  {TemplateA, TemplateHeader, TemplateNestedValue, TemplateNestedOperand,
   TemplateNestedTwice, TemplateCrossNested, TemplateSecondNested,
   TemplateTwoRegions, TemplateEarlierRetain, TemplateNeighbour,
   TemplateCrossLinear, TemplateCrossBranch, TemplateCast}

\* The instructions an edit may insert (the k-th edit inserts instruction "f<k>").
FillerIds == <<"f1", "f2", "f3">>

Fillers(id) ==
  {I(id, "apply", "x"), I(id, "store", NoValue), I(id, "function_ref", NoValue),
   I(id, "debug_value", "v1"), I(id, "debug_value", "x"),
   I(id, "strong_retain", "x"), I(id, "strong_retain", "y"), I(id, "strong_retain", "v1"),
   I(id, "strong_release", "x"), I(id, "strong_release", "v1"),
   I(id, "unsafeGuaranteedEnd", "t1"), I(id, "tuple_extract0", "g1")}

InsertAt(blk, k, i) == SubSeq(blk, 1, k) \o <<i>> \o SubSeq(blk, k + 1, Len(blk))

RemoveAt(blk, k) == SubSeq(blk, 1, k - 1) \o SubSeq(blk, k + 1, Len(blk))

\* An input under construction: the function, and the place of its last edit
\* (block eb, with the first ek instructions of it settled).  Edits are applied
\* from the front of the function to its back, so that each edited function is
\* built once.
Draft(fn, eb, ek) == [fn |-> fn, eb |-> eb, ek |-> ek]

\* The positions k of block b at or after from at which a draft may be edited.
EditFrom(d, b) == IF b = d.eb THEN d.ek ELSE 0

\* The drafts one edit away from d: an instruction inserted before a block's
\* terminator, or a non-terminator removed.
Edit1(d, id) ==
  UNION {
    {Draft(Fn([d.fn.blocks EXCEPT ![b] = InsertAt(d.fn.blocks[b], k, i)], d.fn.succ), b, k + 1) :
       k \in EditFrom(d, b)..(Len(d.fn.blocks[b]) - 1), i \in Fillers(id)}
    \cup
    {Draft(Fn([d.fn.blocks EXCEPT ![b] = RemoveAt(d.fn.blocks[b], k)], d.fn.succ), b, k - 1) :
       k \in (EditFrom(d, b) + 1)..(Len(d.fn.blocks[b]) - 1)}
    : b \in d.eb..Len(d.fn.blocks)}

\* Block a dominates the later block b: a is the entry block, or the blocks up
\* to b form a chain.
BlockDominates(fn, a, b) ==
  a < b /\ (a = 1 \/ \A q \in 1..(b - 1) : fn.succ[q] = {q + 1})

\* The value v is defined before position k of block b: an argument, or the
\* result of an earlier instruction of the block or of a dominating block.
DefinedBefore(fn, b, k, v) ==
  \/ v \in Args \cup {NoValue}
  \/ \E j \in 1..(k - 1) : fn.blocks[b][j].id = v
  \/ \E a \in 1..(b - 1) : v \in BlockIds(fn.blocks[a]) /\ BlockDominates(fn, a, b)

\* SSA form: every operand is defined before its use.
WellFormed(fn) ==
  \A b \in 1..Len(fn.blocks) : \A k \in 1..Len(fn.blocks[b]) :
    DefinedBefore(fn, b, k, fn.blocks[b][k].opd)

\* -------------------------------------------------------------------------
\* The pass: removeGuaranteedRetainReleasePairs and UnsafeGuaranteedPeephole::run
\* -------------------------------------------------------------------------

VARIABLES
  func,        \* the blocks of the function F, mutated in place
  succ,        \* the successors of each block (never modified by the pass)
  input,       \* the blocks of F when the current invocation started
  bbIdx,       \* the block BB of the for loop
  It,          \* the cursor of the while loop
  LastRetain,  \* the per-block map from identity root to the last retain
  Changed,     \* the flag the function returns
  PDI,         \* whether the post-dominance info has been computed
  pdaGets,     \* how often PDA->get(&F) was called in this invocation
  pc,          \* "loop", "returned", "done" or "crashed"
  result,      \* the value removeGuaranteedRetainReleasePairs returned
  invalidated, \* whether run() called invalidateAnalysis
  run,         \* the number of the current invocation: 1, or 2 for the run on the output of run 1
  eraseLog,    \* the eraseFromParent calls of this invocation, in order
  ub,          \* whether an erased instruction was read
  last,        \* the step taken last: its name, its CurInst, what it matched
  \* a second invocation of the pass, on another function
  stage,       \* "single", or "alone" / "together" for two invocations
  running,     \* the invocation (1 or 2) whose locals the variables above hold
  parked,      \* the function and the locals of the invocation that is not running
  alone,       \* the outcomes of the two invocations when each ran alone
  \* the threaded tests of the host's mutex and read-write lock
  test,        \* the test function that runs, or "none"
  mainPc,      \* the position of the thread that runs the test function
  tpc,         \* the position of each thread of threadedExecute
  mutex,       \* the thread that holds the mutex, or NoThread
  lock,        \* the read-write lock: its writer and its readers
  count1,      \* the first counter of the test
  count2,      \* the second counter of the test
  j,           \* the loop counter of each thread
  count,       \* the local "count" of each thread
  done,        \* the flag that ends the threads' loops
  results,     \* what each thread recorded
  failed       \* whether an assertion of the test has failed

passVars == <<func, succ, input, bbIdx, It, LastRetain, Changed, PDI, pdaGets, pc,
              result, invalidated, run, eraseLog, ub, last>>

concVars == <<stage, running, parked, alone>>

hostVars == <<test, mainPc, tpc, mutex, lock, count1, count2, j, count, done,
              results, failed>>

\* What a step of one invocation of the pass cannot touch.
envVars == <<concVars, hostVars>>

vars == <<passVars, envVars>>

EmptyMap == [k \in {} |-> NoValue]

NoMatch == [retain |-> NoValue, value |-> NoValue, token |-> NoValue,
            endI |-> NoValue, release |-> NoValue, opd |-> NoValue, nested |-> <<>>]

Step(act, cur, m) == [act |-> act, cur |-> cur, m |-> m]

\* No second invocation.
NoContext == [pc |-> "none"]

OneInvocation ==
  /\ stage = "single"
  /\ running = 1
  /\ parked = NoContext
  /\ alone = <<>>

\* The number of threads threadedExecute starts (the tests start 10).
ThreadCount == 2

\* The number of iterations of the loop of each thread (the tests run 50).
Iterations == 2

Workers == 1..ThreadCount

\* The thread that runs the test function.
MainThread == 0

NoThread == -1

Unlocked == [writer |-> NoThread, readers |-> {}]

\* No test of the host's locks runs.
NoTest ==
  /\ test = "none"
  /\ mainPc = "none"
  /\ tpc = [t \in Workers |-> "none"]
  /\ mutex = NoThread
  /\ lock = Unlocked
  /\ count1 = 0
  /\ count2 = 0
  /\ j = [t \in Workers |-> 0]
  /\ count = [t \in Workers |-> 0]
  /\ done = FALSE
  /\ results = [t \in Workers |-> FALSE]
  /\ failed = FALSE

\* The function the pass is given is the function of draft d, or a well-formed
\* function at most n further edits away from it.
RECURSIVE InputFrom(_, _)
InputFrom(d, n) ==
  \/ func = d.fn.blocks /\ succ = d.fn.succ /\ input = d.fn.blocks
  \/ /\ n > 0
     /\ \E e \in Edit1(d, FillerIds[n]) : WellFormed(e.fn) /\ InputFrom(e, n - 1)

Init ==
  /\ \E t \in Templates : InputFrom(Draft(t, 1, 0), MaxEdits)
  /\ bbIdx = 1
  /\ It = BeginIt(func[1])
  /\ LastRetain = EmptyMap
  /\ Changed = FALSE
  /\ PDI = FALSE
  /\ pdaGets = 0
  /\ pc = "loop"
  /\ result = FALSE
  /\ invalidated = FALSE
  /\ run = 1
  /\ eraseLog = <<>>
  /\ ub = FALSE
  /\ last = Step("Init", NoValue, NoMatch)
  /\ OneInvocation
  /\ NoTest

BB == func[bbIdx]

\* The while loop is at an instruction: It != End, and &*It is an instruction
\* of the block.
Scanning == pc = "loop" /\ It # EndIt /\ It # Dangling

CurInst == BB[PosIn(BB, It)]

\* auto *CurInst = &*It; ++It;
Advance == It' = NextIt(BB, It)

\* LastRetain[root] = inst
MapPut(map, root, inst) ==
  [k \in DOMAIN map \cup {root} |-> IF k = root THEN inst ELSE map[k]]

\* Mutant: the uses are replaced by the identity root of the operand.
OpdRoot == getRCIdentityRoot(func, CurInst.opd)

Opd == CurInst.opd

RCIdOpd == getRCIdentityRoot(func, Opd)

AtUnsafeGuaranteed == Scanning /\ isUnsafeGuaranteed(CurInst)

HasLastRetain == RCIdOpd \in DOMAIN LastRetain

LastRetainInst == LastRetain[RCIdOpd]

\* The recorded retain is still an instruction of the block.
RetainPresent == LastRetainInst \in BlockIds(BB)

\* Mutant: the walk also steps over calls, as the nested scan does.
isWalkFillerOrApply(i) == isRetain(i) \/ ~mayHaveSideEffects(i) \/ isDebugValue(i) \/ isApply(i)

\* The instructions the walk from the retain to the builtin steps over.
isWalkFiller(i) == isRetain(i) \/ ~mayHaveSideEffects(i) \/ isDebugValue(i)

\* The walk from the instruction after retain r lands on instruction c.
WalkLands(blk, r, c) ==
  /\ PosIn(blk, r) < PosIn(blk, c)
  /\ \A k \in (PosIn(blk, r) + 1)..(PosIn(blk, c) - 1) : isWalkFiller(blk[k])

\* The outcomes of the walk.  Walking from an erased retain reads freed
\* memory: the walk may land on the builtin, stop elsewhere, or fault.
WalkOutcomes ==
  IF RetainPresent
  THEN {IF WalkLands(BB, LastRetainInst, It) THEN "match" ELSE "mismatch"}
  ELSE {"match", "mismatch", "crash"}

\* A builtin "unsafeGuaranteed" with a recorded retain, and the walk's outcome w.
Walked(w) == AtUnsafeGuaranteed /\ HasLastRetain /\ w \in WalkOutcomes

UnsafeGuaranteedValue == getSingleUnsafeGuaranteedValueResult(func, It)[1]

UnsafeGuaranteedToken == getSingleUnsafeGuaranteedValueResult(func, It)[2]

UnsafeGuaranteedEndI == getUnsafeGuaranteedEndUser(func, UnsafeGuaranteedToken)

\* Mutant: the end builtin is only required to come later in the layout
\* (dominance asked in place of post-dominance).
EndComesLater ==
  LET be == ParentOf(func, UnsafeGuaranteedEndI) IN
  IF be = bbIdx THEN PosIn(BB, It) < PosIn(BB, UnsafeGuaranteedEndI) ELSE bbIdx < be

\* PDI->properlyDominates(UnsafeGuaranteedEndI, UnsafeGuaranteedI)
EndPostDominates == properlyDominates(func, succ, UnsafeGuaranteedEndI, It)

LastRelease ==
  findReleaseToMatchUnsafeGuaranteedValue(func, UnsafeGuaranteedEndI, It, UnsafeGuaranteedValue)

\* Mutant: the analysis is asked on every use.
GetPDIAlways == PDI' = TRUE /\ pdaGets' = pdaGets + 1

\* if (!PDI) PDI = PDA->get(&F);
GetPDI == PDI' = TRUE /\ pdaGets' = IF PDI THEN pdaGets ELSE pdaGets + 1

\* What a step that abandons the candidate leaves alone.
Untouched == UNCHANGED <<func, succ, input, bbIdx, LastRetain, Changed, pc, result,
                         invalidated, run, eraseLog, envVars>>

\* Memorize the last retain.
MemorizeRetain ==
  /\ Scanning /\ isRetain(CurInst)
  /\ Advance
  /\ LastRetain' = MapPut(LastRetain, getRCIdentityRoot(func, CurInst.opd), It)
  /\ last' = Step("MemorizeRetain", It, NoMatch)
  /\ UNCHANGED <<func, succ, input, bbIdx, Changed, PDI, pdaGets, pc, result,
                 invalidated, run, eraseLog, ub, envVars>>

\* Not a retain and not a builtin "unsafeGuaranteed": continue.
NotUnsafeGuaranteed ==
  /\ Scanning /\ ~isRetain(CurInst) /\ ~isUnsafeGuaranteed(CurInst)
  /\ Advance
  /\ last' = Step("NotUnsafeGuaranteed", It, NoMatch)
  /\ Untouched /\ UNCHANGED <<PDI, pdaGets, ub>>

\* if (!LastRetain.count(RCIdOpd)) continue;
LastRetainFailed ==
  /\ AtUnsafeGuaranteed /\ ~HasLastRetain
  /\ Advance
  /\ last' = Step("LastRetainFailed", It, NoMatch)
  /\ Untouched /\ UNCHANGED <<PDI, pdaGets, ub>>

\* if (&*NextInstIter != CurInst) continue;
WalkFailed ==
  /\ Walked("mismatch")
  /\ Advance
  /\ ub' = (ub \/ ~RetainPresent)
  /\ last' = Step("WalkFailed", It, [NoMatch EXCEPT !.retain = LastRetainInst])
  /\ Untouched /\ UNCHANGED <<PDI, pdaGets>>

\* The walk from an erased retain faults.
WalkCrashed ==
  /\ Walked("crash")
  /\ pc' = "crashed"
  /\ ub' = TRUE
  /\ last' = Step("WalkCrashed", It, [NoMatch EXCEPT !.retain = LastRetainInst])
  /\ UNCHANGED <<func, succ, input, bbIdx, It, LastRetain, Changed, PDI, pdaGets,
                 result, invalidated, run, eraseLog, envVars>>

\* if (!UnsafeGuaranteedValue) continue;
NoSingleValue ==
  /\ Walked("match")
  /\ UnsafeGuaranteedValue = NoValue
  /\ Advance
  /\ ub' = (ub \/ ~RetainPresent)
  /\ last' = Step("NoSingleValue", It, [NoMatch EXCEPT !.retain = LastRetainInst])
  /\ Untouched /\ UNCHANGED <<PDI, pdaGets>>

\* if (!UnsafeGuaranteedEndI) continue;
NoEndUser ==
  /\ Walked("match")
  /\ UnsafeGuaranteedValue # NoValue
  /\ UnsafeGuaranteedEndI = NoValue
  /\ Advance
  /\ ub' = (ub \/ ~RetainPresent)
  /\ last' = Step("NoEndUser", It, [NoMatch EXCEPT !.retain = LastRetainInst])
  /\ Untouched /\ UNCHANGED <<PDI, pdaGets>>

\* if (!PDI->properlyDominates(UnsafeGuaranteedEndI, UnsafeGuaranteedI)) continue;
NotPostDominated ==
  /\ Walked("match")
  /\ UnsafeGuaranteedValue # NoValue
  /\ UnsafeGuaranteedEndI # NoValue
  /\ GetPDI
  /\ ~EndPostDominates
  /\ Advance
  /\ ub' = (ub \/ ~RetainPresent)
  /\ last' = Step("NotPostDominated", It,
                  [NoMatch EXCEPT !.retain = LastRetainInst, !.endI = UnsafeGuaranteedEndI])
  /\ Untouched

\* if (!LastRelease) continue;
NoRelease ==
  /\ Walked("match")
  /\ UnsafeGuaranteedValue # NoValue
  /\ UnsafeGuaranteedEndI # NoValue
  /\ GetPDI
  /\ EndPostDominates
  /\ LastRelease = NoValue
  /\ Advance
  /\ ub' = (ub \/ ~RetainPresent)
  /\ last' = Step("NoRelease", It,
                  [NoMatch EXCEPT !.retain = LastRetainInst, !.endI = UnsafeGuaranteedEndI])
  /\ Untouched

\* -------------------------------------------------------------------------
\* The transformation
\* -------------------------------------------------------------------------

RECURSIVE SetToSeq(_)
SetToSeq(S) ==
  IF S = {} THEN <<>> ELSE LET x == CHOOSE y \in S : TRUE IN <<x>> \o SetToSeq(S \ {x})

\* deleteAllDebugUses of the value result, the token result and the builtin
DebugUsesOf(F, g, m) ==
  DebugUsers(F, m.value) \cup DebugUsers(F, m.token) \cup DebugUsers(F, g)

\* The eraseFromParent calls of one transformation, in order.
EraseList(F, g, m) ==
  m.nested \o <<m.retain, m.release, m.endI>> \o SetToSeq(DebugUsesOf(F, g, m))
  \o <<m.value, m.token, g>>

\* One mutation of the function: eraseFromParent of instruction id, or
\* replaceAllUsesWith of the value id by the value new.
Erase(id) == [op |-> "erase", id |-> id, new |-> NoValue]

Rauw(id, new) == [op |-> "rauw", id |-> id, new |-> new]

EraseEach(ids) == [k \in 1..Len(ids) |-> Erase(ids[k])]

\* Mutant: the value result and the builtin are erased before their uses are
\* replaced.
MutationOpsEraseFirst(F, g, m) ==
  EraseEach(m.nested)
  \o <<Erase(m.retain), Erase(m.release), Erase(m.endI)>>
  \o EraseEach(SetToSeq(DebugUsers(F, m.value)))
  \o EraseEach(SetToSeq(DebugUsers(F, m.token)))
  \o EraseEach(SetToSeq(DebugUsers(F, g)))
  \o <<Erase(m.value), Rauw(m.value, m.opd), Erase(m.token), Erase(g), Rauw(g, m.opd)>>

\* The mutations of one transformation, in the order of the code: the queued
\* nested pairs, the retain, the release, the end builtin, the debug uses,
\* then the value and token results and the builtin, each erased after its
\* uses have been replaced.
MutationOps(F, g, m) ==
  EraseEach(m.nested)
  \o <<Erase(m.retain), Erase(m.release), Erase(m.endI)>>
  \o EraseEach(SetToSeq(DebugUsers(F, m.value)))
  \o EraseEach(SetToSeq(DebugUsers(F, m.token)))
  \o EraseEach(SetToSeq(DebugUsers(F, g)))
  \o <<Rauw(m.value, m.opd), Erase(m.value), Erase(m.token), Rauw(g, m.opd), Erase(g)>>

ApplyOp(F, o) ==
  IF o.op = "erase" THEN EraseAll(F, {o.id}) ELSE ReplaceAllUsesWith(F, {o.id}, o.new)

\* The function after the first n mutations of ops.
RECURSIVE ApplyOps(_, _, _)
ApplyOps(F, ops, n) == IF n = 0 THEN F ELSE ApplyOp(ApplyOps(F, ops, n - 1), ops[n])

\* Mutant: the token result is left in the block.
RemoveComboKeepToken(F, g, m) ==
  LET F1 == EraseAll(F, Range(m.nested))
      F2 == EraseAll(F1, {m.retain, m.release, m.endI})
      F3 == EraseAll(F2, DebugUsesOf(F2, g, m))
      F4 == ReplaceAllUsesWith(F3, {m.value}, m.opd)
      F5 == EraseAll(F4, {m.value})
      F6 == ReplaceAllUsesWith(F5, {g}, m.opd)
  IN EraseAll(F6, {g})

\* The function after the retain/unsafeGuaranteed/release combo of match m
\* is removed and the uses of the builtin's value are replaced by its operand.
RemoveCombo(F, g, m) ==
  LET F1 == EraseAll(F, Range(m.nested))
      F2 == EraseAll(F1, {m.retain, m.release, m.endI})
      F3 == EraseAll(F2, DebugUsesOf(F2, g, m))
      F4 == ReplaceAllUsesWith(F3, {m.value}, m.opd)
      F5 == EraseAll(F4, {m.value, m.token})
      F6 == ReplaceAllUsesWith(F5, {g}, m.opd)
  IN EraseAll(F6, {g})

\* The blocks retain->getParent() may yield: the block of the retain, or,
\* for an erased retain, any value (here: the block or none of the blocks).
RetainParents == IF RetainPresent THEN {bbIdx} ELSE {bbIdx, 0}

\* The match of the builtin at the cursor, reading parent for the retain's block.
TheMatch(parent) ==
  [retain |-> LastRetainInst, value |-> UnsafeGuaranteedValue,
   token |-> UnsafeGuaranteedToken, endI |-> UnsafeGuaranteedEndI,
   release |-> LastRelease, opd |-> Opd,
   nested |-> tryRemoveRetainReleasePairsBetween(func, It, LastRetainInst, parent,
                                                 LastRelease, UnsafeGuaranteedEndI)]

\* Restart iteration before the earliest instruction we remove: the cursors the
\* loop may continue with once the function has become F.  The predecessor of
\* an erased retain is read from freed memory: any position of the block, or
\* an iterator that designates no instruction of the block.
ResumePoints(F) ==
  IF RetainPresent
  THEN {IF PosIn(BB, LastRetainInst) # 1 THEN PrevIt(BB, LastRetainInst)
        ELSE BeginIt(F[bbIdx])}
  ELSE BlockIds(F[bbIdx]) \cup {EndIt, Dangling}

\* Mutant: the flag is not set.
ChangedNotSet == Changed

\* The flag after a transformation: Changed = true;
ChangedAfterTransform == TRUE

\* Every check passed: remove the combo and restart before the retain.
Transform ==
  /\ Walked("match")
  /\ UnsafeGuaranteedValue # NoValue
  /\ UnsafeGuaranteedEndI # NoValue
  /\ GetPDI
  /\ EndPostDominates
  /\ LastRelease # NoValue
  /\ \E parent \in RetainParents :
       LET m == TheMatch(parent)
           F == RemoveCombo(func, It, m)
       IN /\ func' = F
          /\ It' \in ResumePoints(F)
          /\ eraseLog' = eraseLog \o EraseList(func, It, m)
          /\ last' = Step("Transform", It, m)
  /\ Changed' = ChangedAfterTransform
  /\ ub' = (ub \/ ~RetainPresent)
  /\ UNCHANGED <<succ, input, bbIdx, LastRetain, pc, result, invalidated, run, envVars>>

\* auto *CurInst = &*It; with a cursor that designates no instruction: the
\* read faults.
CursorCrashed ==
  /\ pc = "loop" /\ It = Dangling
  /\ pc' = "crashed"
  /\ ub' = TRUE
  /\ last' = Step("CursorCrashed", NoValue, NoMatch)
  /\ UNCHANGED <<func, succ, input, bbIdx, It, LastRetain, Changed, PDI, pdaGets,
                 result, invalidated, run, eraseLog, envVars>>

\* The while loop of a block has ended: the for loop takes the next block,
\* with a fresh LastRetain.
NextBlock ==
  /\ pc = "loop" /\ It = EndIt /\ bbIdx < Len(func)
  /\ bbIdx' = bbIdx + 1
  /\ It' = BeginIt(func[bbIdx + 1])
  /\ LastRetain' = EmptyMap
  /\ last' = Step("NextBlock", NoValue, NoMatch)
  /\ UNCHANGED <<func, succ, input, Changed, PDI, pdaGets, pc, result, invalidated,
                 run, eraseLog, ub, envVars>>

\* return Changed;
Return ==
  /\ pc = "loop" /\ It = EndIt /\ bbIdx = Len(func)
  /\ pc' = "returned"
  /\ result' = Changed
  /\ last' = Step("Return", NoValue, NoMatch)
  /\ UNCHANGED <<func, succ, input, bbIdx, It, LastRetain, Changed, PDI, pdaGets,
                 invalidated, run, eraseLog, ub, envVars>>

\* Whether run() invalidates the analyses, given the returned flag.
ShouldInvalidate(flag) == flag

\* UnsafeGuaranteedPeephole::run after the call:
\* if (removeGuaranteedRetainReleasePairs(...)) invalidateAnalysis(Instructions);
Invalidate ==
  /\ pc = "returned"
  /\ pc' = "done"
  /\ invalidated' = ShouldInvalidate(result)
  /\ last' = Step("Invalidate", NoValue, NoMatch)
  /\ UNCHANGED <<func, succ, input, bbIdx, It, LastRetain, Changed, PDI, pdaGets,
                 result, run, eraseLog, ub, envVars>>

\* The pass manager runs the pass once more on the function as it is now,
\* with fresh analyses.
RunAgain ==
  /\ pc = "done" /\ run = 1
  /\ run' = run + 1
  /\ input' = func
  /\ bbIdx' = 1
  /\ It' = BeginIt(func[1])
  /\ LastRetain' = EmptyMap
  /\ Changed' = FALSE
  /\ PDI' = FALSE
  /\ pdaGets' = 0
  /\ pc' = "loop"
  /\ result' = FALSE
  /\ invalidated' = FALSE
  /\ eraseLog' = <<>>
  /\ last' = Step("RunAgain", NoValue, NoMatch)
  /\ UNCHANGED <<func, succ, ub, envVars>>

Next ==
  \/ MemorizeRetain
  \/ NotUnsafeGuaranteed
  \/ LastRetainFailed
  \/ WalkFailed
  \/ WalkCrashed
  \/ NoSingleValue
  \/ NoEndUser
  \/ NotPostDominated
  \/ NoRelease
  \/ Transform
  \/ CursorCrashed
  \/ NextBlock
  \/ Return
  \/ Invalidate
  \/ RunAgain

Spec == Init /\ [][Next]_vars

\* -------------------------------------------------------------------------
\* Two invocations of the pass on two functions, interleaved by a scheduler
\* -------------------------------------------------------------------------

\* The function and the locals of the invocation that is running: F, Changed,
\* PDI, It and LastRetain are a parameter and locals of
\* removeGuaranteedRetainReleasePairs, one of each per call.
Context ==
  [func |-> func, succ |-> succ, input |-> input, bbIdx |-> bbIdx, It |-> It,
   LastRetain |-> LastRetain, Changed |-> Changed, PDI |-> PDI, pdaGets |-> pdaGets,
   pc |-> pc, result |-> result, invalidated |-> invalidated, eraseLog |-> eraseLog,
   ub |-> ub, last |-> last]

\* An invocation that has not taken a step, on function fn.
FreshContext(fn) ==
  [func |-> fn.blocks, succ |-> fn.succ, input |-> fn.blocks, bbIdx |-> 1,
   It |-> BeginIt(fn.blocks[1]), LastRetain |-> EmptyMap, Changed |-> FALSE,
   PDI |-> FALSE, pdaGets |-> 0, pc |-> "loop", result |-> FALSE,
   invalidated |-> FALSE, eraseLog |-> <<>>, ub |-> FALSE,
   last |-> Step("Init", NoValue, NoMatch)]

\* Mutant: the flag is one variable that the invocations share.
LoadContextSharedFlag(c) ==
  /\ func' = c.func /\ succ' = c.succ /\ input' = c.input /\ bbIdx' = c.bbIdx
  /\ It' = c.It /\ LastRetain' = c.LastRetain /\ Changed' = Changed
  /\ PDI' = c.PDI /\ pdaGets' = c.pdaGets /\ pc' = c.pc /\ result' = c.result
  /\ invalidated' = c.invalidated /\ eraseLog' = c.eraseLog /\ ub' = c.ub
  /\ last' = c.last

\* The invocation of context c runs next: its function and its own locals.
LoadContext(c) ==
  /\ func' = c.func /\ succ' = c.succ /\ input' = c.input /\ bbIdx' = c.bbIdx
  /\ It' = c.It /\ LastRetain' = c.LastRetain /\ Changed' = c.Changed
  /\ PDI' = c.PDI /\ pdaGets' = c.pdaGets /\ pc' = c.pc /\ result' = c.result
  /\ invalidated' = c.invalidated /\ eraseLog' = c.eraseLog /\ ub' = c.ub
  /\ last' = c.last

\* A builtin with no retain before it.
TemplateNoRetain == Fn(<<RegionB \o Ret>>, <<{}>>)

\* Scenario E: the token has two end builtins.
TemplateTwoEnds ==
  Fn(<<SubSeq(RegionA, 1, 6) \o <<I("e2", "unsafeGuaranteedEnd", "t1")>>
       \o SubSeq(RegionA, 7, 7) \o Ret>>, <<{}>>)

\* The value result is extracted twice.
TemplateTwoValues ==
  Fn(<<SubSeq(RegionA, 1, 4) \o <<I("v2", "tuple_extract0", "g1")>>
       \o SubSeq(RegionA, 5, 7) \o Ret>>, <<{}>>)

\* The functions the two invocations are given.
ConcTemplates == Templates \cup {TemplateNoRetain, TemplateTwoEnds, TemplateTwoValues}

Finished(c) == c.pc \in {"done", "crashed"}

\* The outcome of an invocation: the function it leaves, the flag it returned,
\* how it ended, and whether it read an erased instruction.
Outcome(c) == [func |-> c.func, result |-> c.result, pc |-> c.pc, ub |-> c.ub]

\* First each invocation runs alone, invocation 1 before invocation 2.
ConcInit ==
  /\ \E ta \in ConcTemplates, tb \in ConcTemplates :
       /\ func = ta.blocks /\ succ = ta.succ /\ input = ta.blocks
       /\ parked = FreshContext(tb)
  /\ bbIdx = 1
  /\ It = BeginIt(func[1])
  /\ LastRetain = EmptyMap
  /\ Changed = FALSE
  /\ PDI = FALSE
  /\ pdaGets = 0
  /\ pc = "loop"
  /\ result = FALSE
  /\ invalidated = FALSE
  /\ run = 1
  /\ eraseLog = <<>>
  /\ ub = FALSE
  /\ last = Step("Init", NoValue, NoMatch)
  /\ stage = "alone"
  /\ running = 1
  /\ alone = <<>>
  /\ NoTest

\* Invocation 1 has run alone: invocation 2 runs alone.
RunOtherAlone ==
  /\ stage = "alone" /\ running = 1 /\ Finished(Context)
  /\ LoadContext(parked)
  /\ parked' = Context
  /\ running' = 2
  /\ UNCHANGED <<run, stage, alone, hostVars>>

\* Both have run alone: their outcomes are kept, and the two invocations are
\* started again on the same two functions, this time interleaved.
StartTogether ==
  /\ stage = "alone" /\ running = 2 /\ Finished(Context)
  /\ alone' = <<Outcome(parked), Outcome(Context)>>
  /\ LoadContext(FreshContext(Fn(parked.input, parked.succ)))
  /\ parked' = FreshContext(Fn(input, succ))
  /\ running' = 1
  /\ stage' = "together"
  /\ UNCHANGED <<run, hostVars>>

\* The scheduler lets the other invocation take the next steps.
Switch ==
  /\ stage = "together" /\ ~Finished(parked)
  /\ LoadContext(parked)
  /\ parked' = Context
  /\ running' = 3 - running
  /\ UNCHANGED <<run, stage, alone, hostVars>>

ConcNext ==
  \/ MemorizeRetain
  \/ NotUnsafeGuaranteed
  \/ LastRetainFailed
  \/ WalkFailed
  \/ WalkCrashed
  \/ NoSingleValue
  \/ NoEndUser
  \/ NotPostDominated
  \/ NoRelease
  \/ Transform
  \/ CursorCrashed
  \/ NextBlock
  \/ Return
  \/ Invalidate
  \/ RunOtherAlone
  \/ StartTogether
  \/ Switch

ConcSpec == ConcInit /\ [][ConcNext]_vars

\* The contexts of invocations 1 and 2.
Invocation(n) == IF running = n THEN Context ELSE parked

\* C12: two invocations on two functions do not interfere: under every
\* interleaving of their steps, each leaves the function and returns the flag
\* it leaves and returns when run alone (compared where no invocation read an
\* erased instruction, whose outcome is not determined even alone).
C12_NoInterference ==
  (/\ stage = "together"
   /\ Finished(Invocation(1)) /\ Finished(Invocation(2))
   /\ \A n \in 1..2 : ~alone[n].ub /\ ~Invocation(n).ub)
  => \A n \in 1..2 : Outcome(Invocation(n)) = alone[n]

\* Two invocations run under the scheduler have finished, one having changed
\* its function and one not.
C12_Witness ==
  /\ stage = "together"
  /\ Finished(Invocation(1)) /\ Finished(Invocation(2))
  /\ \A n \in 1..2 : ~alone[n].ub /\ ~Invocation(n).ub
  /\ Invocation(1).result /\ ~Invocation(2).result
  /\ Invocation(1).func # Invocation(1).input
  /\ Invocation(2).func = Invocation(2).input

\* -------------------------------------------------------------------------
\* The threaded tests of Mutex and ReadWriteLock
\* -------------------------------------------------------------------------

\* The tests whose threads count under lock()/unlock(), a ScopedLock guard,
\* or withLock.
CountingTests == {"basicLockableThreaded", "scopedLockThreaded", "criticalSectionThreaded"}

\* The tests of try_readLock and try_writeLock against a lock the main thread holds.
TryLockTests ==
  {"tryReadLockWhileWriteLockedThreaded", "tryReadLockWhileReadLockedThreaded",
   "tryWriteLockWhileWriteLockedThreaded", "tryWriteLockWhileReadLockedThreaded"}

Tests == CountingTests \cup {"lockableThreaded"} \cup TryLockTests

\* Mutex: lock() returns once the mutex is free, and takes it.
MutexFree == mutex = NoThread

\* ReadWriteLock: a read lock is granted unless a writer holds the lock.
CanReadLock == lock.writer = NoThread

\* ReadWriteLock: the write lock is granted when nobody holds the lock.
CanWriteLock == lock.writer = NoThread /\ lock.readers = {}

\* Mutant: the test function takes a read lock before it starts the threads.
MainReadLocks(tst) == [Unlocked EXCEPT !.readers = {MainThread}]

\* The lock as the test function leaves it before it starts the threads:
\* lock.writeLock() or lock.readLock().
MainLocks(tst) ==
  IF tst \in {"tryReadLockWhileWriteLockedThreaded", "tryWriteLockWhileWriteLockedThreaded"}
  THEN [Unlocked EXCEPT !.writer = MainThread]
  ELSE [Unlocked EXCEPT !.readers = {MainThread}]

\* Mutant: lockableThreaded starts its first threads without taking the mutex.
MutexNotTaken == NoThread

\* lockableThreaded: mutex.lock() before the first threads are started.
MutexTakenByMain == MainThread

\* The test function begins: it takes what it holds while the threads run,
\* and threadedExecute starts the threads.
StartTest ==
  /\ mainPc = "start"
  /\ \/ /\ test \in CountingTests
        /\ tpc' = [t \in Workers |-> "lock"]
        /\ mainPc' = "join"
        /\ UNCHANGED <<mutex, lock>>
     \/ /\ test = "lockableThreaded"
        /\ mutex' = MutexTakenByMain
        /\ tpc' = [t \in Workers |-> "try_held"]
        /\ mainPc' = "join1"
        /\ UNCHANGED lock
     \/ /\ test \in TryLockTests
        /\ lock' = MainLocks(test)
        /\ tpc' = [t \in Workers |-> "try"]
        /\ mainPc' = "spinRelease"
        /\ UNCHANGED mutex
  /\ UNCHANGED <<test, count1, count2, j, count, done, results, failed, passVars, concVars>>

AllJoined == \A t \in Workers : tpc[t] = "end"

\* afterSpinRelease of the try-lock tests: done = true.
SetDone ==
  /\ mainPc = "spinRelease"
  /\ done' = TRUE
  /\ mainPc' = "join"
  /\ UNCHANGED <<test, tpc, mutex, lock, count1, count2, j, count, results, failed,
                 passVars, concVars>>

\* lockableThreaded, after the first threads have joined: mutex.unlock(), and
\* one thread is started that tries the lock.
JoinHeld ==
  /\ mainPc = "join1" /\ AllJoined
  /\ mutex' = NoThread
  /\ tpc' = [t \in Workers |-> IF t = 1 THEN "try_free" ELSE "end"]
  /\ mainPc' = "join2"
  /\ UNCHANGED <<test, lock, count1, count2, j, count, done, results, failed,
                 passVars, concVars>>

\* lockableThreaded, after that thread has joined: the counting threads start.
JoinFree ==
  /\ mainPc = "join2" /\ AllJoined
  /\ tpc' = [t \in Workers |-> "try_lock"]
  /\ mainPc' = "join"
  /\ UNCHANGED <<test, mutex, lock, count1, count2, j, count, done, results, failed,
                 passVars, concVars>>

\* The expected value of both counters: threads times iterations.
ExpectedCount == ThreadCount * Iterations

\* The last threadedExecute has joined: the test function releases what it
\* holds and checks its assertions.
JoinAndAssert ==
  /\ mainPc = "join" /\ AllJoined
  /\ mainPc' = "finished"
  /\ \/ /\ test \in CountingTests \cup {"lockableThreaded"}
        /\ failed' = (failed \/ count1 # ExpectedCount \/ count2 # ExpectedCount)
        /\ UNCHANGED lock
     \/ /\ test \in TryLockTests
        /\ lock' = IF lock.writer = MainThread
                   THEN [lock EXCEPT !.writer = NoThread]
                   ELSE [lock EXCEPT !.readers = @ \ {MainThread}]
        /\ failed' = (failed \/ (/\ test = "tryReadLockWhileReadLockedThreaded"
                                 /\ \E t \in Workers : ~results[t]))
  /\ UNCHANGED <<test, tpc, mutex, count1, count2, j, count, done, results,
                 passVars, concVars>>

\* Mutant: the thread enters without taking the mutex.
LockSkipped(t) ==
  /\ tpc[t] = "lock"
  /\ tpc' = [tpc EXCEPT ![t] = "read"]
  /\ UNCHANGED <<test, mainPc, mutex, lock, count1, count2, j, count, done, results,
                 failed, passVars, concVars>>

\* mutex.lock(), the constructor of the ScopedLock guard, the entry of withLock.
Lock(t) ==
  /\ tpc[t] = "lock"
  /\ MutexFree
  /\ mutex' = t
  /\ tpc' = [tpc EXCEPT ![t] = "read"]
  /\ UNCHANGED <<test, mainPc, lock, count1, count2, j, count, done, results,
                 failed, passVars, concVars>>

\* auto count = count2;
ReadCount2(t) ==
  /\ tpc[t] = "read"
  /\ count' = [count EXCEPT ![t] = count2]
  /\ tpc' = [tpc EXCEPT ![t] = "inc"]
  /\ UNCHANGED <<test, mainPc, mutex, lock, count1, count2, j, done, results,
                 failed, passVars, concVars>>

\* count1++;
IncCount1(t) ==
  /\ tpc[t] = "inc"
  /\ count1' = count1 + 1
  /\ tpc' = [tpc EXCEPT ![t] = "write"]
  /\ UNCHANGED <<test, mainPc, mutex, lock, count2, j, count, done, results,
                 failed, passVars, concVars>>

\* count2 = count + 1;
WriteCount2(t) ==
  /\ tpc[t] = "write"
  /\ count2' = count[t] + 1
  /\ tpc' = [tpc EXCEPT ![t] = "unlock"]
  /\ UNCHANGED <<test, mainPc, mutex, lock, count1, j, count, done, results,
                 failed, passVars, concVars>>

\* mutex.unlock() (the destructor of the guard, the exit of withLock), ++j and
\* the test of the for loop.
Unlock(t) ==
  /\ tpc[t] = "unlock"
  /\ mutex' = NoThread
  /\ j' = [j EXCEPT ![t] = j[t] + 1]
  /\ tpc' = [tpc EXCEPT ![t] =
               IF j[t] + 1 >= Iterations THEN "end"
               ELSE IF test = "lockableThreaded" THEN "try_lock" ELSE "lock"]
  /\ UNCHANGED <<test, mainPc, lock, count1, count2, count, done, results,
                 failed, passVars, concVars>>

\* ASSERT_FALSE(mutex.try_lock()) while the test function holds the mutex.
TryLockWhileHeld(t) ==
  /\ tpc[t] = "try_held"
  /\ mutex' = IF MutexFree THEN t ELSE mutex
  /\ failed' = (failed \/ MutexFree)
  /\ tpc' = [tpc EXCEPT ![t] = "end"]
  /\ UNCHANGED <<test, mainPc, lock, count1, count2, j, count, done, results,
                 passVars, concVars>>

\* ASSERT_TRUE(mutex.try_lock()) after the test function has unlocked.
TryLockWhileFree(t) ==
  /\ tpc[t] = "try_free"
  /\ mutex' = IF MutexFree THEN t ELSE mutex
  /\ failed' = (failed \/ ~MutexFree)
  /\ tpc' = [tpc EXCEPT ![t] = IF MutexFree THEN "unlock_free" ELSE "end"]
  /\ UNCHANGED <<test, mainPc, lock, count1, count2, j, count, done, results,
                 passVars, concVars>>

\* mutex.unlock() of that thread.
UnlockAfterTry(t) ==
  /\ tpc[t] = "unlock_free"
  /\ mutex' = NoThread
  /\ tpc' = [tpc EXCEPT ![t] = "end"]
  /\ UNCHANGED <<test, mainPc, lock, count1, count2, j, count, done, results,
                 failed, passVars, concVars>>

\* if (mutex.try_lock()) { ... } else { j--; } of the counting loop; a failed
\* try leaves j as it was once the loop has counted it up again.
TryLockInLoop(t) ==
  /\ tpc[t] = "try_lock"
  /\ mutex' = IF MutexFree THEN t ELSE mutex
  /\ tpc' = [tpc EXCEPT ![t] = IF MutexFree THEN "read" ELSE "try_lock"]
  /\ UNCHANGED <<test, mainPc, lock, count1, count2, j, count, done, results,
                 failed, passVars, concVars>>

\* ASSERT_FALSE(lock.try_readLock()) while the test function holds the write
\* lock; ASSERT_TRUE(lock.try_readLock()); results[index] = true while it holds
\* a read lock.
TryReadLock(t) ==
  /\ tpc[t] = "try"
  /\ test \in {"tryReadLockWhileWriteLockedThreaded", "tryReadLockWhileReadLockedThreaded"}
  /\ lock' = IF CanReadLock THEN [lock EXCEPT !.readers = @ \cup {t}] ELSE lock
  /\ IF test = "tryReadLockWhileWriteLockedThreaded"
     THEN /\ failed' = (failed \/ CanReadLock)
          /\ tpc' = [tpc EXCEPT ![t] = IF CanReadLock THEN "end" ELSE "sleep"]
          /\ UNCHANGED results
     ELSE /\ failed' = (failed \/ ~CanReadLock)
          /\ tpc' = [tpc EXCEPT ![t] = IF CanReadLock THEN "readUnlock" ELSE "end"]
          /\ results' = IF CanReadLock THEN [results EXCEPT ![t] = TRUE] ELSE results
  /\ UNCHANGED <<test, mainPc, mutex, count1, count2, j, count, done, passVars, concVars>>

\* lock.readUnlock() of the thread.
ReadUnlock(t) ==
  /\ tpc[t] = "readUnlock"
  /\ lock' = [lock EXCEPT !.readers = @ \ {t}]
  /\ tpc' = [tpc EXCEPT ![t] = "sleep"]
  /\ UNCHANGED <<test, mainPc, mutex, count1, count2, j, count, done, results,
                 failed, passVars, concVars>>

\* ASSERT_FALSE(lock.try_writeLock()) while the test function holds the write
\* lock or a read lock.
TryWriteLock(t) ==
  /\ tpc[t] = "try"
  /\ test \in {"tryWriteLockWhileWriteLockedThreaded", "tryWriteLockWhileReadLockedThreaded"}
  /\ lock' = IF CanWriteLock THEN [lock EXCEPT !.writer = t] ELSE lock
  /\ failed' = (failed \/ CanWriteLock)
  /\ tpc' = [tpc EXCEPT ![t] = IF CanWriteLock THEN "end" ELSE "sleep"]
  /\ UNCHANGED <<test, mainPc, mutex, count1, count2, j, count, done, results,
                 passVars, concVars>>

\* } while (!done);
WhileNotDone(t) ==
  /\ tpc[t] = "sleep"
  /\ tpc' = [tpc EXCEPT ![t] = IF done THEN "end" ELSE "try"]
  /\ UNCHANGED <<test, mainPc, mutex, lock, count1, count2, j, count, done, results,
                 failed, passVars, concVars>>

\* No invocation of the pass runs.
NoPass ==
  /\ func = <<>> /\ succ = <<>> /\ input = <<>>
  /\ bbIdx = 1
  /\ It = EndIt
  /\ LastRetain = EmptyMap
  /\ Changed = FALSE
  /\ PDI = FALSE
  /\ pdaGets = 0
  /\ pc = "none"
  /\ result = FALSE
  /\ invalidated = FALSE
  /\ run = 1
  /\ eraseLog = <<>>
  /\ ub = FALSE
  /\ last = Step("Init", NoValue, NoMatch)
  /\ OneInvocation

TestInit ==
  /\ NoPass
  /\ test \in Tests
  /\ mainPc = "start"
  /\ tpc = [t \in Workers |-> "none"]
  /\ mutex = NoThread
  /\ lock = Unlocked
  /\ count1 = 0
  /\ count2 = 0
  /\ j = [t \in Workers |-> 0]
  /\ count = [t \in Workers |-> 0]
  /\ done = FALSE
  /\ results = [t \in Workers |-> FALSE]
  /\ failed = FALSE

TestNext ==
  \/ StartTest
  \/ SetDone
  \/ JoinHeld
  \/ JoinFree
  \/ JoinAndAssert
  \/ \E t \in Workers :
       \/ Lock(t)
       \/ ReadCount2(t)
       \/ IncCount1(t)
       \/ WriteCount2(t)
       \/ Unlock(t)
       \/ TryLockWhileHeld(t)
       \/ TryLockWhileFree(t)
       \/ UnlockAfterTry(t)
       \/ TryLockInLoop(t)
       \/ TryReadLock(t)
       \/ ReadUnlock(t)
       \/ TryWriteLock(t)
       \/ WhileNotDone(t)

TestSpec == TestInit /\ [][TestNext]_vars

\* -------------------------------------------------------------------------
\* Properties
\* -------------------------------------------------------------------------

\* The step from this state examines a builtin "unsafeGuaranteed" and changes
\* the function.
TransformsCandidate == AtUnsafeGuaranteed /\ func' # func

Ids(blk) == [k \in 1..Len(blk) |-> blk[k].id]

\* C1: instructions are erased on behalf of a builtin "unsafeGuaranteed" G only
\* if the post-dominance oracle reports that the unique "unsafeGuaranteedEnd"
\* of G post-dominates G; when the oracle answers false the function is left
\* as it is.
C1_ErasedOnlyIfPostDominated ==
  [][TransformsCandidate =>
       /\ UnsafeGuaranteedEndI # NoValue
       /\ properlyDominates(func, succ, UnsafeGuaranteedEndI, It)]_vars

\* Scenario C has happened: the oracle answered false for a candidate whose end
\* builtin lies in another block, and the function is as it was given.
C1_Witness ==
  /\ last.act = "NotPostDominated"
  /\ ParentOf(func, last.m.endI) # ParentOf(func, last.cur)
  /\ func = input

RetainBeforeBuiltin ==
  \E k \in 1..(PosIn(BB, It) - 1) :
    isRetain(BB[k]) /\ getRCIdentityRoot(func, BB[k].opd) = RCIdOpd

\* C3: when no retain of the identity root of G's operand stands before G in
\* G's block (retains of other blocks and retains already erased do not
\* count), G is not matched and nothing is erased for it.
C3_NoRetainNoMatch ==
  [][(AtUnsafeGuaranteed /\ ~RetainBeforeBuiltin) => func' = func]_vars

\* The "unsafeGuaranteedEnd" builtins that consume a token result of builtin g.
EndConsumers(F, g) ==
  {e \in AllInsts(F) :
     /\ isUnsafeGuaranteedEnd(e)
     /\ \E t \in AllInsts(F) : t.kind = "tuple_extract1" /\ t.opd = g /\ e.opd = t.id}

\* C4: when the token result of a builtin "unsafeGuaranteed" is consumed by no
\* "unsafeGuaranteedEnd" or by two or more, the function is left as it is.
C4_UniqueEndUser ==
  [][(AtUnsafeGuaranteed /\ Cardinality(EndConsumers(func, It)) # 1) => func' = func]_vars

\* Scenario E has happened: a candidate whose token has two end builtins was
\* abandoned after the walk from its retain succeeded.
C4_Witness ==
  /\ last.act = "NoEndUser"
  /\ Cardinality(EndConsumers(func, last.cur)) = 2
  /\ func = input

\* The function is the one instruction "apply x" and the return.
OnlyTheCall ==
  func = <<<<I("c1", "apply", "x"), I("z1", "return", NoValue)>>>>

\* C5: a transformation whose recorded retain is an instruction of the block
\* erases exactly that retain, the matched release, the builtin, its value and
\* token results, the end builtin, the debug uses of those results and the
\* queued nested pairs; every other instruction survives in its block, in its
\* original order, with its kind; and Scenario A becomes just the call of x.
C5_ExactErasure ==
  [][/\ (last'.act = "Transform" /\ last'.m.retain \in AllIds(func)) =>
          LET m == last'.m
              g == last'.cur
              gone == {m.retain, m.release, g, m.value, m.token, m.endI}
                        \cup DebugUsers(func, m.value) \cup DebugUsers(func, m.token)
                        \cup DebugUsers(func, g) \cup Range(m.nested)
          IN /\ AllIds(func) \ AllIds(func') = gone
             /\ \A b \in 1..Len(func) :
                  /\ Ids(func'[b]) = Ids(SelectSeq(func[b], LAMBDA i : i.id \notin gone))
                  /\ \A k \in 1..Len(func'[b]) :
                       func'[b][k].kind = InstOf(func, func'[b][k].id).kind
     /\ (input' = TemplateA.blocks /\ pc' = "done" /\ ~ub') => OnlyTheCall']_vars

\* Scenario A has been transformed: what is left is the call of x.
C5_Witness ==
  /\ last.act = "Transform"
  /\ input = TemplateA.blocks
  /\ OnlyTheCall

\* Scenario D: the block is Scenario A with a retain and a release of value nv
\* nested between the results of the builtin and its end: the rest of the
\* region is calls, and nothing that resets the nested scan (only calls,
\* debug_values and instructions without side effects that are no further
\* projection of the builtin) stands between the two.
ScenarioD(F, nv) ==
  /\ Len(F) = 1
  /\ Len(F[1]) >= Len(NestedRegion(nv)) + 1
  /\ SubSeq(F[1], 1, 4) = SubSeq(NestedRegion(nv), 1, 4)
  /\ SubSeq(F[1], Len(F[1]) - 2, Len(F[1])) = SubSeq(NestedRegion(nv), 8, 9) \o Ret
  /\ \E p, q \in 5..(Len(F[1]) - 3) :
       /\ p < q
       /\ F[1][p] = I("n1", "strong_retain", nv)
       /\ F[1][q] = I("n2", "strong_release", nv)
       /\ \A k \in (p + 1)..(q - 1) :
            F[1][k].kind \in {"apply", "debug_value", "function_ref", "upcast"}
       /\ \A k \in (5..(p - 1)) \cup ((q + 1)..(Len(F[1]) - 3)) : isApply(F[1][k])

\* The first run of the pass has finished without reading an erased instruction.
FirstRunDone == run = 1 /\ pc = "done" /\ ~ub

NoRetainOrRelease(F) == \A i \in AllInsts(F) : ~isRetain(i) /\ ~isRelease(i)

C7_ChangedIffMutated ==
  /\ Changed <=> (func # input)
  /\ Changed <=> (eraseLog # <<>>)
  /\ pc \in {"returned", "done"} => (result <=> Changed)
  /\ pc = "done" => (invalidated <=> result)
  /\ pc # "done" => ~invalidated

\* An invocation that changed the function has invalidated the analyses.
C7_Witness == pc = "done" /\ invalidated /\ func # input

\* C8: a second run of the pass on the output of a first run changes nothing
\* and reports no change.
C8_Idempotent == run = 2 => (func = input /\ ~Changed)

\* C9: the retain a builtin is matched against, fetched from LastRetain, is an
\* instruction still in the block; no erased instruction is read.
C9_RecordedRetainPresent ==
  /\ (AtUnsafeGuaranteed /\ HasLastRetain) => RetainPresent
  /\ ~ub

\* The number of instructions of the function the invocation was given, plus one:
\* more than the length of any block.
ScanWeight == Cardinality(AllIds(input)) + 1

\* The instructions of the current block from the cursor to the block's end.
ScanDistance == IF It \in {EndIt, Dangling} THEN 0 ELSE Len(BB) - PosIn(BB, It) + 1

\* The variant of the scan: the instructions left in the function, then the
\* blocks left to scan, then the instructions left in the block.
Variant ==
  Cardinality(AllIds(func)) * (Len(func) + 1) * ScanWeight
  + (Len(func) - bbIdx) * ScanWeight
  + ScanDistance

\* C10: the pass terminates: every step of the scan, a rewinding transformation
\* included, brings the scan closer to its end, and the scan does not stop
\* before the pass returns.
C10_Terminates ==
  [][pc = "loop" => /\ pc' \in {"loop", "returned"}
                    /\ pc' = "loop" => Variant' < Variant]_vars

\* The scan makes progress as long as it runs (it may stop in a fault).
ScanProgress ==
  [][(pc = "loop" /\ pc' = "loop") => Variant' < Variant]_vars

\* The builtin at the cursor fails one of the checks of the matcher and the
\* verifier: no recorded retain, an instruction the walk does not step over,
\* unresolved results, no unique end builtin, no post-dominance, no release.
FailsACheck ==
  \/ ~HasLastRetain
  \/ HasLastRetain /\ RetainPresent /\ ~WalkLands(BB, LastRetainInst, It)
  \/ UnsafeGuaranteedValue = NoValue
  \/ /\ UnsafeGuaranteedValue # NoValue
     /\ \/ UnsafeGuaranteedEndI = NoValue
        \/ /\ UnsafeGuaranteedEndI # NoValue
           /\ \/ ~EndPostDominates
              \/ LastRelease = NoValue

\* The step abandons the candidate: the function and the flag are as before,
\* and the scan goes on at the instruction after the builtin.
CandidateAbandoned ==
  /\ func' = func
  /\ Changed' = Changed
  /\ pc' = "loop"
  /\ It' = NextIt(BB, It)

\* C11: whenever a builtin "unsafeGuaranteed" fails any check, the function's
\* instructions, operands and order are as before, the flag is not set, and the
\* scan continues at the instruction following the builtin, without rewinding.
C11_FailedCheckAbandons ==
  [][(AtUnsafeGuaranteed /\ FailsACheck) => CandidateAbandoned]_vars

\* The same, for candidates whose recorded retain (if any) is still in the block.
FailedCheckAbandonsUnlessStale ==
  [][(AtUnsafeGuaranteed /\ FailsACheck /\ (HasLastRetain => RetainPresent))
       => CandidateAbandoned]_vars


\* The thread is between lock() and unlock(): in its critical section.
InCriticalSection(t) == tpc[t] \in {"read", "inc", "write", "unlock"}

\* C13: mutual exclusion of the mutex: when the threads each run their
\* read-modify-write critical sections under lock()/unlock() (a ScopedLock
\* guard, withLock), no two threads are in the critical section at once, the
\* thread in it holds the mutex, and no update is lost: both counters end at
\* threads * iterations.
C13_MutualExclusion ==
  test \in CountingTests =>
    /\ \A t1, t2 \in Workers : (InCriticalSection(t1) /\ InCriticalSection(t2)) => t1 = t2
    /\ \A t \in Workers : InCriticalSection(t) => mutex = t
    /\ mainPc = "finished" =>
         (count1 = ThreadCount * Iterations /\ count2 = ThreadCount * Iterations /\ ~failed)

\* A counting test has finished with every update counted.
C13_Witness ==
  /\ test = "scopedLockThreaded"
  /\ mainPc = "finished"
  /\ count1 = ThreadCount * Iterations
  /\ count2 = ThreadCount * Iterations
  /\ \A t \in Workers : j[t] = Iterations

\* The thread is about to call mutex.try_lock().
AtTryLock(t) == tpc[t] \in {"try_held", "try_free", "try_lock"}

\* C14: try_lock never blocks: a thread at try_lock can always take its step; it
\* returns false and leaves the mutex as it is while another thread holds the
\* mutex (the assertion of the threads started under the held mutex passes),
\* and it returns true and takes the mutex when the mutex is free after the
\* holder has unlocked (the assertion of the thread started then passes).
C14_TryLock ==
  [][test = "lockableThreaded" =>
       /\ ~failed'
       /\ \A t \in Workers :
            /\ AtTryLock(t) =>
                 ENABLED (TryLockWhileHeld(t) \/ TryLockWhileFree(t) \/ TryLockInLoop(t))
            /\ (AtTryLock(t) /\ tpc'[t] # tpc[t]) =>
                 (IF mutex = NoThread
                  THEN mutex' = t /\ tpc'[t] \in {"unlock_free", "read"}
                  ELSE mutex' = mutex /\ tpc'[t] = "end" /\ tpc[t] = "try_held")]_vars

\* lockableThreaded has finished: the tries under the held mutex returned
\* false, the try after the unlock returned true, and the tries of the
\* counting loop counted every update.
C14_Witness ==
  /\ test = "lockableThreaded"
  /\ mainPc = "finished"
  /\ ~failed
  /\ count2 = ThreadCount * Iterations

\* The thread is about to call lock.try_readLock() or lock.try_writeLock().
AtTryReadWrite(t) == test \in TryLockTests /\ tpc[t] = "try"

\* The lock once thread t shares it as a reader.
WithReader(t) == [lock EXCEPT !.readers = @ \cup {t}]

IsTryRead == test \in {"tryReadLockWhileWriteLockedThreaded", "tryReadLockWhileReadLockedThreaded"}

\* C15: reader-writer lock compatibility: while another thread holds the write
\* lock, try_readLock and try_writeLock return false (the lock stays as it is,
\* the assertion passes); while another thread holds a read lock,
\* try_writeLock returns false and try_readLock returns true, the readers
\* sharing the lock.
C15_ReadWriteCompatibility ==
  [][(test \in TryLockTests) =>
       /\ ~failed'
       /\ \A t \in Workers :
            (AtTryReadWrite(t) /\ tpc'[t] # tpc[t]) =>
               /\ (lock.writer \notin {NoThread, t}) =>
                     (lock' = lock /\ tpc'[t] = "sleep")
               /\ (lock.writer = NoThread /\ lock.readers \ {t} # {}) =>
                     (IF IsTryRead
                      THEN /\ lock' = WithReader(t)
                           /\ tpc'[t] = "readUnlock"
                           /\ results'[t]
                      ELSE lock' = lock /\ tpc'[t] = "sleep")]_vars

\* Every thread holds a read lock together with the test function.
C15_Witness ==
  /\ test = "tryReadLockWhileReadLockedThreaded"
  /\ lock.readers = Workers \cup {MainThread}
  /\ \A t \in Workers : results[t]
  /\ ~failed


\* The instructions of F that use value v as an operand.
UsersOf(F, v) == {i \in AllInsts(F) : i.opd = v}

\* Every operand of F is an argument or defined by an instruction of F.
NoDanglingOperand(F) ==
  \A i \in AllInsts(F) : i.opd \in Args \cup {NoValue} \cup AllIds(F)

\* C16: at the moment the transformation erases an instruction (the nested
\* pairs, the retain, the release, the end builtin, the debug uses, the value
\* and token results, the builtin), no instruction left in the function uses
\* the erased instruction; and once the pass has returned, no operand of the
\* function is defined by an erased instruction.
C16_ErasedHasNoUsers ==
  [][/\ last'.act = "Transform" =>
          LET ops == MutationOps(func, last'.cur, last'.m) IN
          /\ ApplyOps(func, ops, Len(ops)) = func'
          /\ \A k \in 1..Len(ops) :
               ops[k].op = "erase" => UsersOf(ApplyOps(func, ops, k - 1), ops[k].id) = {}
     /\ pc' \in {"returned", "done"} => NoDanglingOperand(func')]_vars

\* The pass has returned from a function in which it erased a value that a
\* surviving instruction used.
C16_Witness ==
  /\ pc = "returned"
  /\ Changed
  /\ \E i \in AllInsts(func) : InstOf(input, i.id).opd \in AllIds(input) \ AllIds(func)
  /\ NoDanglingOperand(func)

\* C17: after a transformation of builtin G with operand x, every surviving
\* instruction that used the value result of G, or G, uses x in that operand
\* position (the operand itself, not its identity root), and no other operand
\* of a surviving instruction has changed.
C17_UsesRewrittenToOperand ==
  [][last'.act = "Transform" =>
       LET g == last'.cur
           x == InstOf(func, g).opd
       IN \A i \in AllInsts(func') :
            i.opd = IF InstOf(func, i.id).opd \in {last'.m.value, g}
                    THEN x ELSE InstOf(func, i.id).opd]_vars

\* A builtin whose operand is a cast has been transformed: the call uses the
\* cast, the operand of the builtin, and not the value the cast converts.
C17_Witness ==
  /\ last.act = "Transform"
  /\ last.m.opd = "u1"
  /\ getRCIdentityRoot(input, "u1") = "x"
  /\ \E i \in AllInsts(func) : i.id = "c1" /\ i.opd = "u1"
  /\ InstOf(input, "c1").opd = last.m.value


\* C18: within one invocation the post-dominance information is requested from
\* the analysis at most once, and only at a builtin "unsafeGuaranteed" that has
\* passed the lookup of its retain, the walk, the resolution of its value and
\* token results and the check of its unique end builtin.
C18_PostDominanceRequestedOnce ==
  [][/\ pdaGets' <= 1
     /\ PDI' <=> (pdaGets' = 1)
     /\ pdaGets' > pdaGets =>
          /\ AtUnsafeGuaranteed
          /\ HasLastRetain
          /\ RetainPresent => WalkLands(BB, LastRetainInst, It)
          /\ UnsafeGuaranteedValue # NoValue
          /\ UnsafeGuaranteedToken # NoValue
          /\ UnsafeGuaranteedEndI # NoValue]_vars

\* The builtins "unsafeGuaranteed" erased in this invocation.
TransformedBuiltins ==
  {eraseLog[k] : k \in {n \in 1..Len(eraseLog) : isUnsafeGuaranteed(InstOf(input, eraseLog[n]))}}

\* Two builtins have asked for post-dominance in one invocation, which asked
\* the analysis once.
C18_Witness ==
  /\ Cardinality(TransformedBuiltins) = 2
  /\ pdaGets = 1
  /\ ~ub

\* The nearest retain of identity root r that stands before position k of blk,
\* or NoValue.
RECURSIVE NearestRetainBefore(_, _, _, _)
NearestRetainBefore(F, blk, k, r) ==
  IF k <= 1 THEN NoValue
  ELSE IF isRetain(blk[k - 1]) /\ getRCIdentityRoot(F, blk[k - 1].opd) = r
       THEN blk[k - 1].id
       ELSE NearestRetainBefore(F, blk, k - 1, r)

\* The position of the cursor in its block (past the last instruction at the end).
CursorPos == IF It \in {EndIt, Dangling} THEN Len(BB) + 1 ELSE PosIn(BB, It)

\* The identity roots of the retains of the function the invocation was given.
RetainedRoots == {getRCIdentityRoot(input, i.opd) : i \in {r \in AllInsts(input) : isRetain(r)}}

\* C19: at every scan position, positions reached by a rewind included,
\* LastRetain maps each identity root to the nearest retain of that root that
\* precedes the cursor and is still in the block, and has no entry for a root
\* without such a retain.
C19_LastRetainIsNearestRetain ==
  pc = "loop" =>
    \A r \in RetainedRoots \cup DOMAIN LastRetain :
      LET n == NearestRetainBefore(func, BB, CursorPos, r) IN
      IF n = NoValue THEN r \notin DOMAIN LastRetain
      ELSE r \in DOMAIN LastRetain /\ LastRetain[r] = n

\* Steps other than recording a retain and entering a block leave LastRetain
\* as it is: no instruction removes or changes an entry.
LastRetainOnlyGrows ==
  [][(pc = "loop" /\ pc' = "loop" /\ bbIdx' = bbIdx) =>
       \/ LastRetain' = LastRetain
       \/ isRetain(CurInst) /\ LastRetain' = MapPut(LastRetain, getRCIdentityRoot(func, CurInst.opd), It)]_vars

\* C20: every nested pair the transformation erases is a retain and a later
\* release, both between the builtin and its end, neither the outer retain nor
\* the outer release, of the same identity root, with nothing between them but
\* instructions without side effects, debug_values and calls.
C20_NestedPairsAreBalanced ==
  [][last'.act = "Transform" =>
       LET m == last'.m
           g == last'.cur
           blk == func[ParentOf(func, g)]
       IN /\ Len(m.nested) % 2 = 0
          /\ \A k \in 1..(Len(m.nested) \div 2) :
               LET a == m.nested[2 * k - 1]
                   b == m.nested[2 * k]
               IN /\ a \in BlockIds(blk) /\ b \in BlockIds(blk)
                  /\ m.endI \in BlockIds(blk)
                  /\ isRetain(InstOf(func, a)) /\ isRelease(InstOf(func, b))
                  /\ PosIn(blk, g) < PosIn(blk, a)
                  /\ PosIn(blk, a) < PosIn(blk, b)
                  /\ PosIn(blk, b) < PosIn(blk, m.endI)
                  /\ a # m.retain /\ b # m.release
                  /\ getRCIdentityRoot(func, InstOf(func, a).opd)
                       = getRCIdentityRoot(func, InstOf(func, b).opd)
                  /\ \A q \in (PosIn(blk, a) + 1)..(PosIn(blk, b) - 1) :
                       blk[q].kind \in {"tuple_extract0", "tuple_extract1", "function_ref",
                                        "upcast", "debug_value", "apply"}]_vars

\* A transformation has erased a nested pair with a call between its retain
\* and its release.
C20_Witness ==
  /\ last.act = "Transform"
  /\ Len(last.m.nested) = 2
  /\ \E b \in 1..Len(input) :
       /\ last.m.nested[1] \in BlockIds(input[b]) /\ last.m.nested[2] \in BlockIds(input[b])
       /\ \E q \in (PosIn(input[b], last.m.nested[1]) + 1)..(PosIn(input[b], last.m.nested[2]) - 1) :
            isApply(input[b][q])


\* The first run of the scan of tryRemoveRetainReleasePairsBetween for match m
\* of builtin g in block blk: the positions from the builtin up to the end
\* builtin or the release, whichever comes first.
ScanStop(blk, m) ==
  IF PosIn(blk, m.release) < PosIn(blk, m.endI) THEN PosIn(blk, m.release)
  ELSE PosIn(blk, m.endI)

ScannedPositions(blk, g, m) == PosIn(blk, g)..(ScanStop(blk, m) - 1)

\* The builtin, its end, the retain and the release of match m are in one block.
InOneBlock(F, g, m) ==
  /\ m.retain \in AllIds(F)
  /\ ParentOf(F, m.retain) = ParentOf(F, g)
  /\ ParentOf(F, m.endI) = ParentOf(F, g)
  /\ ParentOf(F, m.release) = ParentOf(F, g)

\* The kinds that leave the candidate of the nested scan as it is.
KeepsCandidate(i) ==
  i.kind \in {"tuple_extract0", "tuple_extract1", "function_ref", "upcast",
              "debug_value", "apply"}

\* The pairs <<retain, release>> of the scanned positions, neither the outer
\* retain nor the outer release, both of identity root root, with nothing
\* between the two but instructions that keep the candidate.
PairsOfRoot(F, blk, g, m, root) ==
  {<<blk[p[1]].id, blk[p[2]].id>> :
     p \in {q \in ScannedPositions(blk, g, m) \X ScannedPositions(blk, g, m) :
              /\ q[1] < q[2]
              /\ isRetain(blk[q[1]]) /\ blk[q[1]].id # m.retain
              /\ getRCIdentityRoot(F, blk[q[1]].opd) = root
              /\ isRelease(blk[q[2]]) /\ blk[q[2]].id # m.release
              /\ getRCIdentityRoot(F, blk[q[2]].opd) = root
              /\ \A k \in (q[1] + 1)..(q[2] - 1) : KeepsCandidate(blk[k])}}

\* The pairs queued in InstsToDelete.
QueuedPairs(m) ==
  {<<m.nested[2 * k - 1], m.nested[2 * k]>> : k \in 1..(Len(m.nested) \div 2)}

NestedRetainOf(F, i, g, m) ==
  isRetain(i) /\ i.id # m.retain /\ getRCIdentityRoot(F, i.opd) = g

NestedReleaseOf(F, i, g, m) ==
  isRelease(i) /\ i.id # m.release /\ getRCIdentityRoot(F, i.opd) = g

\* C22: the nested scan keeps one candidate: a later retain it accepts replaces
\* the candidate, and the slot is cleared after each pairing.  Where the
\* scanned positions hold inc1; inc2; dec1; dec2, all accepted and adjacent,
\* exactly inc2 and dec1 are erased and inc1 and dec2 are left; and no
\* instruction is queued twice.
C22_SingleSlotGreedy ==
  [][(last'.act = "Transform" /\ InOneBlock(func, last'.cur, last'.m)) =>
       LET m == last'.m
           g == last'.cur
           blk == func[ParentOf(func, g)]
           S == ScannedPositions(blk, g, m)
       IN /\ Cardinality(Range(m.nested)) = Len(m.nested)
          /\ \A a \in S :
               (/\ a + 3 \in S
                /\ NestedRetainOf(func, blk[a], g, m)
                /\ NestedRetainOf(func, blk[a + 1], g, m)
                /\ NestedReleaseOf(func, blk[a + 2], g, m)
                /\ NestedReleaseOf(func, blk[a + 3], g, m))
               => /\ <<blk[a + 1].id, blk[a + 2].id>> \in QueuedPairs(m)
                  /\ blk[a].id \notin Range(m.nested)
                  /\ blk[a + 3].id \notin Range(m.nested)
                  /\ {blk[a].id, blk[a + 3].id} \subseteq AllIds(func')
                  /\ {blk[a + 1].id, blk[a + 2].id} \cap AllIds(func') = {}]_vars

\* inc1; inc2; dec1; dec2 of the guaranteed value were nested in the region:
\* the transformation has erased inc2 and dec1 and has left inc1 and dec2.
C22_Witness ==
  /\ last.act = "Transform"
  /\ \E k \in 1..(Len(input[1]) - 3) :
       Ids(SubSeq(input[1], k, k + 3)) = <<"n1", "n3", "n2", "n4">>
  /\ last.m.nested = <<"n3", "n2">>
  /\ {"n1", "n4"} \subseteq AllIds(func)
  /\ {"n3", "n2"} \cap AllIds(func) = {}


\* Instruction i resets the candidate of the nested scan: it has side effects
\* and is neither a debug_value nor a call.
ResetsCandidate(i) == mayHaveSideEffects(i) /\ ~isDebugValue(i) /\ ~isApply(i)

\* C23: the candidate of the nested scan is reset by every instruction with
\* side effects that is neither a debug_value nor a call (a retain or release
\* of another identity root and an unpaired release included), and is kept by
\* instructions without side effects, debug_values and calls: an accepted
\* retain and an accepted release separated only by such instructions are
\* erased as a pair, a pair with any other instruction between the two is
\* not, and a release that follows a resetting instruction with no accepted
\* retain between the two is not erased.
C23_CandidateReset ==
  [][(last'.act = "Transform" /\ InOneBlock(func, last'.cur, last'.m)) =>
       LET m == last'.m
           g == last'.cur
           blk == func[ParentOf(func, g)]
           S == ScannedPositions(blk, g, m)
       IN /\ \A a, b \in S :
               (/\ a < b
                /\ NestedRetainOf(func, blk[a], g, m)
                /\ NestedReleaseOf(func, blk[b], g, m))
               => /\ (\A k \in (a + 1)..(b - 1) : ~ResetsCandidate(blk[k]))
                       => <<blk[a].id, blk[b].id>> \in QueuedPairs(m)
                  /\ (\E k \in (a + 1)..(b - 1) : ResetsCandidate(blk[k]))
                       => <<blk[a].id, blk[b].id>> \notin QueuedPairs(m)
          /\ \A r, b \in S :
               (/\ r < b
                /\ ResetsCandidate(blk[r]) /\ ~NestedRetainOf(func, blk[r], g, m)
                /\ NestedReleaseOf(func, blk[b], g, m)
                /\ \A k \in (r + 1)..(b - 1) : ~NestedRetainOf(func, blk[k], g, m))
               => blk[b].id \notin Range(m.nested)]_vars

\* A transformation has left a nested retain and release of the guaranteed
\* value in the block because a store stands between the two.
C23_Witness ==
  /\ last.act = "Transform"
  /\ last.m.nested = <<>>
  /\ \E b \in 1..Len(input) : \E p, q \in 1..Len(input[b]) :
       /\ p < q
       /\ input[b][p] = I("n1", "strong_retain", "v1")
       /\ input[b][q] = I("n2", "strong_release", "v1")
       /\ \E k \in (p + 1)..(q - 1) : input[b][k].kind = "store"
  /\ {"n1", "n2"} \subseteq AllIds(func)
  /\ "g1" \notin AllIds(func)


\* The cursor after a transformation that erased retain r of block blk, the
\* block being blkAfter afterwards: the instruction that preceded r, or the
\* first instruction left when r was the first.
BeforeRetain(blk, blkAfter, r) ==
  IF PosIn(blk, r) > 1 THEN blk[PosIn(blk, r) - 1].id ELSE BeginIt(blkAfter)

\* Every step of the scan other than a transformation moves the cursor to the
\* next instruction of the block, and the block is left only at its end.
NoInstructionSkipped ==
  /\ (pc = "loop" /\ pc' = "loop" /\ last'.act \notin {"Transform", "NextBlock"})
       => It' = NextIt(BB, It)
  /\ last'.act = "NextBlock" => It = EndIt

\* C24: after each transformation the scan goes on at the instruction that
\* preceded the erased retain in the block, or at the first instruction left
\* in the block when the retain was its first; from there on no instruction of
\* the block is skipped.
C24_ResumesBeforeRetain ==
  [][/\ last'.act = "Transform" =>
          /\ last'.m.retain \in BlockIds(BB)
          /\ It' = BeforeRetain(BB, func'[bbIdx], last'.m.retain)
          /\ It' \in BlockIds(func'[bbIdx]) \cup {EndIt}
     /\ NoInstructionSkipped]_vars

\* The same, for the transformations whose recorded retain is still in the block.
ResumesBeforeRetainUnlessStale ==
  [][/\ (last'.act = "Transform" /\ last'.m.retain \in BlockIds(BB)) =>
          /\ It' = BeforeRetain(BB, func'[bbIdx], last'.m.retain)
          /\ It' \in BlockIds(func'[bbIdx]) \cup {EndIt}
     /\ NoInstructionSkipped]_vars

\* A transformation whose retain was not the first instruction of its block
\* has rewound the cursor to the instruction before the retain.
RewoundBeforeRetain ==
  /\ last.act = "Transform"
  /\ last.m.retain \in BlockIds(input[bbIdx])
  /\ PosIn(input[bbIdx], last.m.retain) > 1
  /\ It = input[bbIdx][PosIn(input[bbIdx], last.m.retain) - 1].id


\* C25: the cursor of the scan never designates an erased instruction: at every
\* turn of the while loop it is an instruction of the current block or the
\* block's end, after transformations that erased the instruction after the
\* builtin included.
C25_CursorIsValid ==
  pc = "loop" => It \in BlockIds(BB) \cup {EndIt}

\* The same, as long as no erased instruction has been read.
CursorIsValidUnlessStale ==
  (pc = "loop" /\ ~ub) => It \in BlockIds(BB) \cup {EndIt}

\* A transformation has erased the instruction the cursor had advanced to, and
\* the scan goes on at an instruction of the block.
CursorRewoundFromErased ==
  /\ last.act = "Transform"
  /\ ~ub
  /\ NextIt(input[bbIdx], last.cur) \notin AllIds(func)
  /\ It \in BlockIds(BB)


\* What C26 says of one transformation, of match m of builtin g: nested pairs
\* are queued only if the retain, the builtin, its end and the release are in
\* one block; if they are not, none is queued and the builtin, its results,
\* its end and the release are erased all the same; if they are, the queued
\* instructions stand between the builtin and the first of the end builtin
\* and the release, and every pair of these positions is queued.
PrunedOnlyInOneBlock(g, m) ==
  LET blk == func[ParentOf(func, g)] IN
  /\ m.nested # <<>> => InOneBlock(func, g, m)
  /\ ~InOneBlock(func, g, m) =>
       /\ m.nested = <<>>
       /\ {m.release, g, m.value, m.token, m.endI} \cap AllIds(func') = {}
  /\ InOneBlock(func, g, m) =>
       /\ Range(m.nested) \subseteq {blk[k].id : k \in ScannedPositions(blk, g, m)}
       /\ QueuedPairs(m) = PairsOfRoot(func, blk, g, m, g)

\* C26: nested pairs are pruned only when the builtin, its end, the outer
\* retain and the matched release all lie in one block; when one of them does
\* not, no nested pair is erased and the outer transformation proceeds; when
\* they do, the scan covers the instructions from the builtin up to the first
\* of the end builtin and the release.
C26_PruningOnlyInOneBlock ==
  [][last'.act = "Transform" => PrunedOnlyInOneBlock(last'.cur, last'.m)]_vars

\* The same, for the transformations whose recorded retain is still in the function.
PruningOnlyInOneBlockUnlessStale ==
  [][(last'.act = "Transform" /\ last'.m.retain \in AllIds(func))
       => PrunedOnlyInOneBlock(last'.cur, last'.m)]_vars

\* A transformation whose end builtin lies in another block has left a nested
\* retain/release pair of the guaranteed value in the block of the builtin.
CrossBlockNotPruned ==
  /\ last.act = "Transform"
  /\ ~ub
  /\ ParentOf(input, last.m.endI) # ParentOf(input, last.cur)
  /\ last.m.nested = <<>>
  /\ {"n1", "n2"} \subseteq AllIds(func)
  /\ InstOf(input, "n1").opd = last.m.value
  /\ InstOf(input, "n2").opd = last.m.value


\* The retains and the releases erased in this invocation.
ErasedRetains == {id \in Range(eraseLog) : isRetain(InstOf(input, id))}

ErasedReleases == {id \in Range(eraseLog) : isRelease(InstOf(input, id))}

\* C27: in every invocation each instruction is erased at most once, and the
\* number of retains erased equals the number of releases erased: each
\* transformation erases one outer retain and one outer release, and nested
\* instructions are erased in retain/release pairs.
C27_BalancedSingleDeletion ==
  /\ \A a, b \in 1..Len(eraseLog) : a # b => eraseLog[a] # eraseLog[b]
  /\ Cardinality(ErasedRetains) = Cardinality(ErasedReleases)

\* The same, as long as no erased instruction has been read.
BalancedUnlessStale == ~ub => C27_BalancedSingleDeletion

\* An invocation has erased two retains and two releases, a nested pair among them.
BalancedWithNestedPair ==
  /\ ~ub
  /\ pc = "done"
  /\ Cardinality(ErasedRetains) = 2
  /\ Cardinality(ErasedReleases) = 2
  /\ last.act = "Invalidate"
  /\ \E k \in 1..(Len(eraseLog) - 1) :
       isRetain(InstOf(input, eraseLog[k])) /\ isRelease(InstOf(input, eraseLog[k + 1]))
       /\ InstOf(input, eraseLog[k]).opd = InstOf(input, eraseLog[k + 1]).opd
       /\ InstOf(input, eraseLog[k]).opd \notin Args


====
